---- MODULE Spec2Model ----
(***************************************************************************)
(* CaptainHook (src/main.go, the program of lines 262-533): a GitHub       *)
(* webhook to IRC notifier.  Three concurrent domains are modelled:        *)
(*   - main: the configuration load, irc.Connect, handler registration,    *)
(*     then the delivery loop (select over ircmsgs and sigs);              *)
(*   - the goirc client: lines received from the server are dispatched to  *)
(*     the handlers main registered ("connected", "disconnected",          *)
(*     "PRIVMSG", "KICK");                                                 *)
(*   - net/http: one goroutine per inbound request runs the "/" handler,   *)
(*     which ends in a send on the buffered channel ircmsgs.               *)
(* goirc and net/http are libraries outside the repository: they appear    *)
(* only as the environment that calls the repository's handlers, and a    *)
(* call the program makes into them is a step that returns.                *)
(***************************************************************************)
EXTENDS Integers, Sequences, FiniteSets, TLC

\* ------------------------------------------------------------- constants
QueueCap == 10

\* Bound of the model: the length of a burst of requests.
MaxBurst == 12

ColorWhite == 0
ColorGreen == 3
ColorRed == 4
ColorPurple == 6
ColorLightGrey == 15

Channel == "#ury"
Nick == "CaptainHook"
Server == "irc.example.org:6667"
HostPort == ":1337"

\* ------------------------------------------------------ the configuration
\* Config, as far as the program reads it, and its zero value.
ZeroConfig == [Channel |-> "", Server |-> "", Nick |-> "", HostPort |-> ""]
Complete == [Channel |-> Channel, Server |-> Server, Nick |-> Nick, HostPort |-> HostPort]

\* The file at confpath: one that cannot be read, one that is not TOML, or
\* TOML with the keys it has ("" for a key it does not have).
Without(key) == [Complete EXCEPT ![key] = ""]
File(state, keys) == [state |-> state, toml |-> keys]
CompleteFile == File("ok", Complete)
BrokenFiles ==
  {File("unreadable", ZeroConfig), File("invalid", ZeroConfig)}
    \cup {File("ok", Without(key)) : key \in {"Server", "Channel", "HostPort"}}

\* loadconfigfromfile: ioutil.ReadFile, then toml.Decode into a zero Config.
\* An error of either is returned; a key the file does not have leaves its
\* field at the zero value and is no error.
loadconfigfromfile(file) ==
  IF file.state = "ok" THEN [err |-> FALSE, conf |-> file.toml]
  ELSE [err |-> TRUE, conf |-> ZeroConfig]

\* ----------------------------------------------------- message formatting
Digit(d) ==
  CASE d = 0 -> "0" [] d = 1 -> "1" [] d = 2 -> "2" [] d = 3 -> "3"
    [] d = 4 -> "4" [] d = 5 -> "5" [] d = 6 -> "6" [] d = 7 -> "7"
    [] d = 8 -> "8" [] OTHER -> "9"

\* A conversion that pads the code to two digits.
ItoaPadded(n) == <<Digit(n \div 10), Digit(n % 10)>>

\* strconv.Itoa on a colour code (0..15): its decimal digits, no padding.
Itoa(n) == IF n < 10 THEN <<Digit(n)>> ELSE <<Digit(n \div 10), Digit(n % 10)>>

\* MIRCColor: ^C, the foreground code, ",99" (transparent background), the
\* text, ^C.  A string is modelled as the sequence of its pieces.
MIRCColor(in, fg) == <<"^C">> \o Itoa(fg) \o <<",", "9", "9", in, "^C">>

\* act2color[a]: a Go map lookup, the zero value (ColorWhite) when absent.
act2color(a) ==
  CASE a = "opened" -> ColorGreen
    [] a = "reopened" -> ColorGreen
    [] a = "closed" -> ColorRed
    [] a = "created" -> ColorGreen
    [] OTHER -> ColorWhite

\* ------------------------------------------------------------ the inputs
\* A request: the X-Hub-Signature header's standing against the body (the
\* handler never reads it), the X-Github-Event header, the body, and the
\* answer git.io gives if the handler posts this request's URL to it.
Signatures == {"valid", "missing", "malformed", "mismatch"}
Markers == {"pull_request", "issues", "repository", "push"}
\* The body: well-formed JSON of the right types ("ok"), JSON one of whose
\* values has the wrong type for its field, here "number" ("type"), or
\* text that is not JSON ("syntax").
JsonKinds == {"ok", "type", "syntax"}
Actions == {"opened", "closed", "created", "labeled"}
GitIO == {"201", "500", "neterr"}

LongURL == "https://github.com/UniversityRadioYork/foo/x"
ShortURL == "http://git.io/x"

\* "merged" is the pull request's merged flag in the body GitHub sends.
Body(j, a, n) ==
  [json |-> j, action |-> a, number |-> n, title |-> "Fix bug",
   html_url |-> LongURL, login |-> "bob", repo |-> "foo", merged |-> FALSE]

Request(s, e, j, a, n, g) == [sig |-> s, ev |-> e, body |-> Body(j, a, n), gitio |-> g]

\* The same request about a pull request that was merged.
Merged(r) == [r EXCEPT !.body.merged = TRUE]

Unmerged(n) ==
  {Request(s, e, j, a, n, g) :
     s \in Signatures, e \in Markers, j \in JsonKinds, a \in Actions, g \in GitIO}

Requests(n) == Unmerged(n) \cup {Merged(r) : r \in {u \in Unmerged(n) : u.ev = "pull_request"}}

\* ----------------------------------------------------- the HTTP handler
ZeroEvent == [Action |-> "", Number |-> 0, Title |-> "", HTMLURL |-> "",
              Login |-> "", RepoName |-> ""]

\* json.Unmarshal(body, &event) into a zero event.  Invalid JSON is refused
\* before anything is stored.  A key of the body that no field of the struct
\* takes (the PRQ struct has none for "merged") is ignored.  A value of the wrong type is skipped, the
\* rest is decoded, and an UnmarshalTypeError is returned at the end.
Unmarshal(body) ==
  CASE body.json = "syntax" -> [err |-> TRUE, event |-> ZeroEvent]
    [] body.json = "type" ->
         [err |-> TRUE,
          event |-> [Action |-> body.action, Number |-> 0, Title |-> body.title,
                     HTMLURL |-> body.html_url, Login |-> body.login,
                     RepoName |-> body.repo]]
    [] OTHER ->
         [err |-> FALSE,
          event |-> [Action |-> body.action, Number |-> body.number,
                     Title |-> body.title, HTMLURL |-> body.html_url,
                     Login |-> body.login, RepoName |-> body.repo]]

\* ShortenGHUrl: named results (shorturl, err); shorturl stays "" on every
\* early return.
ShortenGHUrl(url2shorten, resp) ==
  IF resp = "neterr" THEN [shorturl |-> "", err |-> TRUE]
  ELSE IF resp # "201" THEN [shorturl |-> "", err |-> TRUE]
  ELSE [shorturl |-> ShortURL, err |-> FALSE]

\* A pull-request switch that also lets "labeled" through.
PRQActionsLabeled == {"opened", "closed", "reopened", "labeled"}

\* The actions each variant lets through (the inner switch statements).
PRQActions == {"opened", "closed", "reopened"}
IssueActions == {"opened", "closed", "reopened"}
RepositoryActions == {"created"}

\* fmt.Sprintf of the notification: the format and its arguments.
Sprintf(kind, event, url) ==
  [fmt |-> kind,
   repo |-> MIRCColor(event.RepoName, ColorPurple),
   number |-> IF kind = "Repo" THEN 0 ELSE event.Number,
   action |-> MIRCColor(event.Action, act2color(event.Action)),
   login |-> event.Login,
   title |-> IF kind = "Repo" THEN "" ELSE event.Title,
   url |-> url]

\* A string that is not a formatted notification, as a message.
Plain(str) ==
  [fmt |-> "plain", repo |-> <<>>, number |-> 0, action |-> <<>>, login |-> "",
   title |-> str, url |-> ""]

Nothing == [posts |-> <<>>, msgs |-> <<>>]

\* A case that posts the URL a second time when git.io fails.
CaseRetry(kind, accepted, r) ==
  LET event == Unmarshal(r.body).event
      short == ShortenGHUrl(event.HTMLURL, r.gitio)
  IN IF event.Action \in accepted
       THEN [posts |-> IF short.err THEN <<event.HTMLURL, event.HTMLURL>>
                       ELSE <<event.HTMLURL>>,
             msgs |-> <<Sprintf(kind, event, short.shorturl)>>]
       ELSE Nothing

\* One variant's case of the handler: unmarshal (an error is logged, and the
\* handler goes on), switch on the action, shorten, format.
Case(kind, accepted, r) ==
  LET event == Unmarshal(r.body).event
  IN IF event.Action \in accepted
       THEN [posts |-> <<event.HTMLURL>>,
             msgs |-> <<Sprintf(kind, event,
                                ShortenGHUrl(event.HTMLURL, r.gitio).shorturl)>>]
       ELSE Nothing

\* The "/" handler up to its channel send: the POSTs it makes to git.io and
\* the message it is about to send on ircmsgs (at most one).
HTTPHandler(r) ==
  CASE r.ev = "pull_request" -> Case("PRQ", PRQActions, r)
    [] r.ev = "issues" -> Case("Issue", IssueActions, r)
    [] r.ev = "repository" -> Case("Repo", RepositoryActions, r)
    [] OTHER -> Nothing

\* ------------------------------------------------------------ the channel
\* ircmsgs := make(chan string, 10): a send completes only while there is
\* room, a receive takes the oldest element.
\* A send that never waits for room.
CanSendAlways(q) == TRUE

\* A receive that takes the newest element.
RecvNewest(q) == [msg |-> q[Len(q)], rest |-> SubSeq(q, 1, Len(q) - 1)]

\* A send that puts the message in twice.
SendTwice(q, m) == Append(Append(q, m), m)

CanSend(q) == Len(q) < QueueCap
Send(q, m) == Append(q, m)
Recv(q) == [msg |-> Head(q), rest |-> Tail(q)]

\* ----------------------------------------------------------------- state
VARIABLES
  conffile,  \* the configuration file
  conf,      \* main's conf
  mainpc,    \* main's position: "config", "connect", "reg_connected",
             \* "reg_disconnected", "reg_privmsg", "reg_kick", "listen",
             \* "select", "send", "exited"
  conn,      \* the session: "Disconnected", "Connecting", "Connected"
  reconn,    \* the "disconnected" handler: "idle" or "sleeping"
  line,      \* the line goirc has read and not yet dispatched (<<>>: none)
  inChan,    \* whether the bot is in conf.Channel
  ircmsgs,   \* the buffered channel
  cur,       \* msg of the delivery loop between receive and Privmsg
  blocked,   \* per client connection: the message of its handler, which is
             \* at its channel send (<<>>: no handler is)
  reqs,      \* per client connection: the requests still to come on it
  enqLog,    \* every message sent on ircmsgs, in order
  deqLog,    \* every message received from ircmsgs, in order
  sentLog,   \* every message the delivery loop passed to irc.Privmsg, in order
  served,    \* the request the latest step served (<<>>: none)
  posts,     \* the POSTs to git.io the latest step made
  out,       \* the IRC commands the latest step wrote to the connection
  wrap,      \* a call of MIRCColor on its own: its arguments and its result
             \* (<<>>: not made yet)
  sig        \* what became of a SIGINT the latest step delivered: "none"
             \* (no signal in that step), "taken" or "dropped"

vars == <<conffile, conf, mainpc, conn, reconn, line, inChan, ircmsgs, cur, blocked, reqs,
          enqLog, deqLog, sentLog, served, posts, out, sig, wrap>>

\* net/http serves the requests of one client connection one after the
\* other, and the connections concurrently.  The requests to come: one
\* request of any shape on a connection and one of a few plain ones on the
\* other, or a burst of accepted pull requests, longer than the queue, on
\* one connection.
Conns == {"a", "b"}

Followups(n) ==
  {Request("valid", "pull_request", "ok", "opened", n, "201"),
   Request("valid", "issues", "ok", "closed", n, "500")}

Burst == [i \in 1..MaxBurst |-> Request("valid", "pull_request", "ok", "opened", i, "201")]

Single == [a |-> <<Request("valid", "pull_request", "ok", "opened", 1, "201")>>, b |-> <<>>]

Workloads ==
  {[a |-> <<r1>>, b |-> <<r2>>] : r1 \in Requests(1), r2 \in Followups(2)}
    \cup {[a |-> Burst, b |-> <<>>]}

\* The program as main starts.
Start ==
  /\ mainpc = "config"
  /\ conf = ZeroConfig
  /\ conn = "Disconnected"
  /\ reconn = "idle"
  /\ line = <<>>
  /\ inChan = FALSE
  /\ ircmsgs = <<>>
  /\ cur = <<>>
  /\ blocked = [c \in Conns |-> <<>>]
  /\ enqLog = <<>>
  /\ deqLog = <<>>
  /\ sentLog = <<>>
  /\ served = <<>>
  /\ posts = <<>>
  /\ out = <<>>
  /\ sig = "none"

NoCall == [in |-> "", fg |-> ColorWhite, res |-> <<>>]

\* The program is started on a complete configuration with any of the
\* workloads, or on a broken one with a single request.
Init ==
  /\ Start
  /\ \/ conffile = CompleteFile /\ reqs \in Workloads
     \/ conffile \in BrokenFiles /\ reqs = Single
  /\ wrap = NoCall

Running == mainpc # "exited"

\* Whether main has passed the irc.HandleFunc call of an event.
Registered(ev) ==
  CASE ev = "connected" -> mainpc \notin {"config", "connect", "reg_connected"}
    [] ev = "disconnected" ->
         mainpc \notin {"config", "connect", "reg_connected", "reg_disconnected"}
    [] ev = "PRIVMSG" ->
         mainpc \notin {"config", "connect", "reg_connected", "reg_disconnected",
                        "reg_privmsg"}
    [] OTHER ->
         mainpc \notin {"config", "connect", "reg_connected", "reg_disconnected",
                        "reg_privmsg", "reg_kick"}

\* The commands the program writes to the connection.
Join(ch) == [cmd |-> "JOIN", target |-> ch, text |-> <<>>]
Privmsg(ch, t) == [cmd |-> "PRIVMSG", target |-> ch, text |-> <<t>>]
Quit == [cmd |-> "QUIT", target |-> "", text |-> <<>>]

\* The lines of the server that reach a handler of the program.
Welcome == [cmd |-> "001", nick |-> "", arg |-> ""]
Kick(by, whom) == [cmd |-> "KICK", nick |-> by, arg |-> whom]
Message(by, t) == [cmd |-> "PRIVMSG", nick |-> by, arg |-> t]

Kicked == {Nick, "alice"}
\* A text: what it starts with, and the rest with its spaces trimmed.
Texts == {[prefix |-> Nick \o ":", rest |-> "hi"],
          [prefix |-> Nick \o ":", rest |-> "reload"],
          [prefix |-> Nick \o ":", rest |-> "eat toml"],
          [prefix |-> "", rest |-> "lunch?"]}

NoHTTP == served' = <<>> /\ posts' = <<>>

\* ------------------------------------------------------------------ main
\* conf, err := loadconfigfromfile(*confpath); logger.Fatal(err) on an error,
\* which ends the process.  Nothing else is checked about conf.
AfterLoad(err) == IF err THEN "exited" ELSE "connect"

LoadConfig ==
  /\ mainpc = "config"
  /\ conf' = loadconfigfromfile(conffile).conf
  /\ mainpc' = AfterLoad(loadconfigfromfile(conffile).err)
  /\ out' = <<>>
  /\ sig' = "none"
  /\ NoHTTP
  /\ UNCHANGED <<conffile, conn, reconn, line, inChan, ircmsgs, cur, blocked, reqs,
                 enqLog, deqLog, wrap>>
  /\ UNCHANGED sentLog

\* The dial of irc.Connect() succeeds or fails; with no server address to
\* dial it fails.
Dial(server) == IF server = "" THEN {FALSE} ELSE BOOLEAN

\* irc.Connect(): the dial succeeds or fails; a failure is logged and main
\* goes on.  Nothing is dispatched to the program on a failed dial.
Connect(ok) == IF ok THEN "Connecting" ELSE "Disconnected"

MainConnect ==
  /\ mainpc = "connect"
  /\ \E ok \in Dial(conf.Server) : conn' = Connect(ok)
  /\ mainpc' = "reg_connected"
  /\ out' = <<>>
  /\ NoHTTP
  /\ UNCHANGED <<reconn, line, inChan, ircmsgs, cur, blocked, reqs, enqLog, deqLog>>
  /\ sig' = "none"
  /\ UNCHANGED wrap
  /\ UNCHANGED <<conffile, conf>>
  /\ UNCHANGED sentLog

\* The four irc.HandleFunc calls, in program order, then http.HandleFunc.
AfterHandleFunc(pc) ==
  CASE pc = "reg_connected" -> "reg_disconnected"
    [] pc = "reg_disconnected" -> "reg_privmsg"
    [] pc = "reg_privmsg" -> "reg_kick"
    [] OTHER -> "listen"

HandleFunc ==
  /\ mainpc \in {"reg_connected", "reg_disconnected", "reg_privmsg", "reg_kick"}
  /\ mainpc' = AfterHandleFunc(mainpc)
  /\ out' = <<>>
  /\ NoHTTP
  /\ UNCHANGED <<conn, reconn, line, inChan, ircmsgs, cur, blocked, reqs, enqLog, deqLog>>
  /\ sig' = "none"
  /\ UNCHANGED wrap
  /\ UNCHANGED <<conffile, conf>>
  /\ UNCHANGED sentLog

\* go http.ListenAndServe(conf.HostPort, nil): requests are served from here.
ListenAndServe ==
  /\ mainpc = "listen"
  /\ mainpc' = "select"
  /\ out' = <<>>
  /\ NoHTTP
  /\ UNCHANGED <<conn, reconn, line, inChan, ircmsgs, cur, blocked, reqs, enqLog, deqLog>>
  /\ sig' = "none"
  /\ UNCHANGED wrap
  /\ UNCHANGED <<conffile, conf>>
  /\ UNCHANGED sentLog

\* A loop that does not reach its select while the "disconnected" handler
\* sleeps.
LoopReadyAwake == mainpc = "select" /\ reconn # "sleeping"

\* A loop that does not reach its select while the session is not up.
LoopReadyConnected == mainpc = "select" /\ conn = "Connected"

\* main is at the select of the delivery loop: nothing but the two channels
\* keeps it there (the handlers of the session, the sleep of "disconnected"
\* among them, run in goroutines of their own).
LoopReady == mainpc = "select"

\* The delivery loop, case msg := <-ircmsgs.
Receive ==
  /\ LoopReady
  /\ ircmsgs # <<>>
  /\ cur' = <<Recv(ircmsgs).msg>>
  /\ ircmsgs' = Recv(ircmsgs).rest
  /\ deqLog' = Append(deqLog, Recv(ircmsgs).msg)
  /\ mainpc' = "send"
  /\ out' = <<>>
  /\ NoHTTP
  /\ UNCHANGED <<conn, reconn, line, inChan, blocked, reqs, enqLog>>
  /\ sig' = "none"
  /\ UNCHANGED wrap
  /\ UNCHANGED <<conffile, conf>>
  /\ UNCHANGED sentLog

\* What the delivery loop writes for msg in a session state: irc.Privmsg is
\* called whatever the state is.
Deliver(state, msg) == <<Privmsg(conf.Channel, msg)>>

\* The delivery loop, irc.Privmsg(conf.Channel, msg).
SendMsg ==
  /\ mainpc = "send"
  /\ out' = Deliver(conn, cur[1])
  /\ sentLog' = Append(sentLog, cur[1])
  /\ cur' = <<>>
  /\ mainpc' = "select"
  /\ NoHTTP
  /\ UNCHANGED <<conn, reconn, line, inChan, ircmsgs, blocked, reqs, enqLog, deqLog>>
  /\ sig' = "none"
  /\ UNCHANGED wrap
  /\ UNCHANGED <<conffile, conf>>

\* sigs is unbuffered (make(chan os.Signal)) and signal.Notify sends without
\* blocking: the send succeeds only when main waits in the select, which it
\* does when it is at the select and ircmsgs has nothing for it.
Parked == mainpc = "select" /\ ircmsgs = <<>>

\* What a SIGINT does to main: case <-sigs runs irc.Quit() and os.Exit(0)
\* when the signal reaches the channel; otherwise the signal is dropped and
\* main goes on where it was.
TakeSignal(parked, pc) ==
  IF parked THEN [pc |-> "exited", out |-> <<Quit>>, sig |-> "taken"]
  ELSE [pc |-> pc, out |-> <<>>, sig |-> "dropped"]

\* Whether main has passed signal.Notify (and has not exited).
Notified == mainpc \notin {"config", "exited"}

\* A SIGINT arrives, signal.Notify(sigs, syscall.SIGINT) being in force.
Sigint ==
  /\ Notified
  /\ mainpc' = TakeSignal(Parked, mainpc).pc
  /\ out' = TakeSignal(Parked, mainpc).out
  /\ sig' = TakeSignal(Parked, mainpc).sig
  /\ NoHTTP
  /\ UNCHANGED <<conn, reconn, line, inChan, ircmsgs, cur, blocked, reqs, enqLog, deqLog>>
  /\ UNCHANGED wrap
  /\ UNCHANGED <<conffile, conf>>
  /\ UNCHANGED sentLog

\* ----------------------------------------------------------- the session
\* The server sends a line and goirc reads it: the welcome (001) while the
\* session registers, a KICK in the channel or a PRIVMSG once it is up.
ServerLines ==
  IF conn = "Connecting" THEN {Welcome}
  ELSE IF conn = "Connected"
    THEN {Message("alice", t) : t \in Texts}
         \cup (IF inChan THEN {Kick("op", k) : k \in Kicked} ELSE {})
    ELSE {}

ServerLine ==
  /\ Running
  /\ line = <<>>
  /\ \E l \in ServerLines :
       /\ line' = <<l>>
       /\ inChan' = IF l.cmd = "KICK" /\ l.arg = Nick THEN FALSE ELSE inChan
  /\ out' = <<>>
  /\ NoHTTP
  /\ UNCHANGED <<mainpc, conn, reconn, ircmsgs, cur, blocked, reqs, enqLog, deqLog>>
  /\ sig' = "none"
  /\ UNCHANGED wrap
  /\ UNCHANGED <<conffile, conf>>
  /\ UNCHANGED sentLog

\* The handlers main registers, as what each writes to the connection.
OnConnected == <<Join(conf.Channel)>>
OnKick(l) == <<Join(conf.Channel), Privmsg(conf.Channel, Plain(l.nick \o ": >:("))>>

Greetings == {"yo", "hi", "sup", "hello", "ohai", "wb", "evening", "morning", "afternoon"}
Output(l) == IF l.arg.rest \in Greetings THEN "Well met, " \o l.nick ELSE ""
OnPrivmsg(l) ==
  IF l.arg.prefix = conf.Nick \o ":"
    THEN <<Privmsg(conf.Channel, Plain(Output(l)))>>
    ELSE <<>>

\* A configuration wiped by a reload word.
Wiped(l, c) == IF l.arg.rest \in {"reload", "eat toml"} THEN ZeroConfig ELSE c

\* conf after the PRIVMSG handler ran on a line: the case of "reload",
\* "restart", "reboot" and "eat toml" is empty, and no other case assigns
\* conf.
Reloaded(l, c) == c

\* conf after goirc dispatched a line.
ConfAfter(l, c) == IF l.cmd = "PRIVMSG" /\ Registered("PRIVMSG") THEN Reloaded(l, c) ELSE c

\* goirc dispatches the line it read to the handler registered for it, if
\* one is registered by now.
Handlers(l) ==
  CASE l.cmd = "001" -> IF Registered("connected") THEN OnConnected ELSE <<>>
    [] l.cmd = "KICK" -> IF Registered("KICK") THEN OnKick(l) ELSE <<>>
    [] OTHER -> IF Registered("PRIVMSG") THEN OnPrivmsg(l) ELSE <<>>

Joins(cmds) == {i \in 1..Len(cmds) : cmds[i].cmd = "JOIN"}

Dispatch ==
  /\ Running
  /\ line # <<>>
  /\ out' = Handlers(line[1])
  /\ conn' = IF line[1].cmd = "001" THEN "Connected" ELSE conn
  /\ inChan' = (inChan \/ \E i \in Joins(out') : out'[i].target # "")
  /\ line' = <<>>
  /\ NoHTTP
  /\ UNCHANGED <<mainpc, reconn, ircmsgs, cur, blocked, reqs, enqLog, deqLog>>
  /\ sig' = "none"
  /\ UNCHANGED wrap
  /\ conf' = ConfAfter(line[1], conf)
  /\ UNCHANGED conffile
  /\ UNCHANGED sentLog

\* The connection is lost: goirc dispatches "disconnected", whose handler
\* (if registered by now) starts its one-minute sleep.
OnDisconnected == IF Registered("disconnected") THEN "sleeping" ELSE "idle"

Disconnect ==
  /\ Running
  /\ conn # "Disconnected"
  /\ conn' = "Disconnected"
  /\ line' = <<>>
  /\ inChan' = FALSE
  /\ reconn' = OnDisconnected
  /\ out' = <<>>
  /\ NoHTTP
  /\ UNCHANGED <<mainpc, ircmsgs, cur, blocked, reqs, enqLog, deqLog>>
  /\ sig' = "none"
  /\ UNCHANGED wrap
  /\ UNCHANGED <<conffile, conf>>
  /\ UNCHANGED sentLog

\* The "disconnected" handler after its sleep: one irc.Connect(), whose
\* failure is logged; the handler returns either way.
Reconnect ==
  /\ Running
  /\ reconn = "sleeping"
  /\ \E ok \in Dial(conf.Server) : conn' = Connect(ok)
  /\ reconn' = "idle"
  /\ out' = <<>>
  /\ NoHTTP
  /\ UNCHANGED <<mainpc, line, inChan, ircmsgs, cur, blocked, reqs, enqLog, deqLog>>
  /\ sig' = "none"
  /\ UNCHANGED wrap
  /\ UNCHANGED <<conffile, conf>>
  /\ UNCHANGED sentLog

\* ------------------------------------------------------------- net/http
Listening == mainpc \in {"select", "send"}

\* The next request of a connection arrives and its handler runs up to the
\* channel send (or to its return, when it has nothing to send).
Serve ==
  /\ Listening
  /\ \E c \in Conns :
       /\ reqs[c] # <<>>
       /\ blocked[c] = <<>>
       /\ served' = <<Head(reqs[c])>>
       /\ posts' = HTTPHandler(Head(reqs[c])).posts
       /\ blocked' = [blocked EXCEPT ![c] = HTTPHandler(Head(reqs[c])).msgs]
       /\ reqs' = [reqs EXCEPT ![c] = Tail(reqs[c])]
  /\ out' = <<>>
  /\ UNCHANGED <<mainpc, conn, reconn, line, inChan, ircmsgs, cur, enqLog, deqLog>>
  /\ sig' = "none"
  /\ UNCHANGED wrap
  /\ UNCHANGED <<conffile, conf>>
  /\ UNCHANGED sentLog

\* A handler's ircmsgs <- msg completes, and the handler returns.
Enqueue ==
  /\ Listening
  /\ CanSend(ircmsgs)
  /\ \E c \in Conns :
       /\ blocked[c] # <<>>
       /\ ircmsgs' = Send(ircmsgs, blocked[c][1])
       /\ enqLog' = Append(enqLog, blocked[c][1])
       /\ blocked' = [blocked EXCEPT ![c] = <<>>]
  /\ out' = <<>>
  /\ NoHTTP
  /\ UNCHANGED <<mainpc, conn, reconn, line, inChan, cur, reqs, deqLog>>
  /\ sig' = "none"
  /\ UNCHANGED wrap
  /\ UNCHANGED <<conffile, conf>>
  /\ UNCHANGED sentLog

Next ==
  \/ LoadConfig
  \/ MainConnect
  \/ HandleFunc
  \/ ListenAndServe
  \/ Receive
  \/ SendMsg
  \/ Sigint
  \/ ServerLine
  \/ Dispatch
  \/ Disconnect
  \/ Reconnect
  \/ Serve
  \/ Enqueue

Spec == Init /\ [][Next]_vars

\* The Go scheduler runs a goroutine that can proceed, and a call into
\* goirc returns: the loop's receive, its Privmsg and a handler's send on
\* a queue with room each happen once they can.  Nothing is assumed of the
\* server, of the clients or of signals.
\* It is checked on the complete configuration, with the burst and with
\* requests on both connections.
InitFair ==
  /\ Start
  /\ conffile = CompleteFile
  /\ reqs \in {[a |-> Burst, b |-> <<>>]} \cup {[a |-> <<r>>, b |-> Single.a] : r \in Followups(2)}
  /\ wrap = NoCall

FairSpec ==
  InitFair /\ [][Next]_vars /\ WF_vars(Receive) /\ WF_vars(SendMsg) /\ WF_vars(Enqueue)

\* ------------------------------------------------- MIRCColor on its own
\* The pure function applied to every colour of MIRCColorType and to a few
\* texts, one of which starts with a digit and one of which is empty.
Colors == ColorWhite..ColorLightGrey
Words == {"foo", "closed", "7up", ""}

InitColor ==
  /\ Start
  /\ conffile = CompleteFile
  /\ reqs = [c \in Conns |-> <<>>]
  /\ wrap \in {[in |-> w, fg |-> f, res |-> <<>>] : w \in Words, f \in Colors}

ApplyMIRCColor ==
  /\ wrap.res = <<>>
  /\ wrap' = [wrap EXCEPT !.res = MIRCColor(wrap.in, wrap.fg)]
  /\ UNCHANGED <<conffile, conf, mainpc, conn, reconn, line, inChan, ircmsgs, cur,
                 blocked, reqs, enqLog, deqLog, sentLog, served, posts, out, sig>>

NextColor == ApplyMIRCColor

SpecColor == InitColor /\ [][NextColor]_vars

\* ================================================================ claims
Last(s) == s[Len(s)]

\* What the specification calls an accepted event: a marker that selects a
\* variant, and an action of that variant's accepted set.
SpecAccepted(r) ==
  \/ r.ev \in {"pull_request", "issues"} /\ r.body.action \in {"opened", "closed", "reopened"}
  \/ r.ev = "repository" /\ r.body.action = "created"

SelectsVariant(r) == r.ev \in {"pull_request", "issues", "repository"}

\* The latest step served a request and left no trace of a notification:
\* nothing queued, no handler at its channel send.
NothingEnqueued == blocked' = blocked /\ ircmsgs' = ircmsgs /\ enqLog' = enqLog

\* C1: the delivery loop receives the notifications in exactly the order in
\* which the handlers' sends completed (what was sent is what was received,
\* followed by what is still queued), and it passes each received
\* notification to irc.Privmsg before it receives the next.
C1_DequeueOrder ==
  /\ [](/\ enqLog = deqLog \o ircmsgs
        /\ (mainpc = "send") = (cur # <<>>)
        /\ (cur # <<>> => cur[1] = Last(deqLog)))
  /\ [][mainpc = "send" /\ mainpc' # "send"
          => out' = <<Privmsg(conf.Channel, Last(deqLog))>>]_vars

C1_Witness ==
  /\ Len(deqLog) >= 3
  /\ deqLog[1] # deqLog[2]
  /\ Len(ircmsgs) >= 2
  /\ \E c \in Conns : blocked[c] # <<>>

\* C2: the queue never holds more than QueueCap notifications, and the
\* message of a handler that is at its channel send stays with the handler
\* until there is room; then it is appended to the queue, and nothing that
\* was queued is lost or replaced.
C2_BoundedBlocking ==
  /\ [](Len(ircmsgs) <= QueueCap)
  /\ [][\A c \in Conns :
          blocked[c] # <<>> =>
            \/ blocked'[c] = blocked[c]
            \/ /\ Len(ircmsgs) < QueueCap
               /\ ircmsgs' = Append(ircmsgs, blocked[c][1])
               /\ blocked'[c] = <<>>]_vars

C2_Witness ==
  /\ Len(ircmsgs) = QueueCap
  /\ \E c \in Conns : blocked[c] # <<>>

\* C3: a request whose signature header is missing, malformed or does not
\* match produces no notification.
C3_UnsignedDropped ==
  [][served' # <<>> /\ served'[1].sig # "valid" => NothingEnqueued]_vars

\* C4: a request whose marker selects no variant, or whose action is not in
\* its variant's accepted set, makes no POST to git.io and leaves the queue
\* and the handlers at their sends as they were.
C4_UnacceptedIgnored ==
  [][served' # <<>> /\ ~SpecAccepted(served'[1])
       => posts' = <<>> /\ NothingEnqueued]_vars

C4_Witness ==
  /\ served # <<>>
  /\ ~SpecAccepted(served[1])
  /\ served[1].body.json = "ok"
  /\ posts = <<>>
  /\ \A c \in Conns : blocked[c] = <<>>

\* C5: a request whose body fails to deserialize into the selected variant
\* produces no notification and no POST to git.io.
C5_DecodeFailureAborts ==
  [][served' # <<>> /\ SelectsVariant(served'[1]) /\ served'[1].body.json # "ok"
       => posts' = <<>> /\ NothingEnqueued]_vars

\* C6: when git.io fails for an accepted, well-formed event, exactly one
\* notification is produced and its URL is the event's long URL.
C6_ShortenFallback ==
  [][served' # <<>> /\ SpecAccepted(served'[1]) /\ served'[1].body.json = "ok"
       /\ served'[1].gitio # "201"
       => \E c \in Conns :
            /\ blocked[c] = <<>>
            /\ Len(blocked'[c]) = 1
            /\ blocked'[c][1].url = served'[1].body.html_url
            /\ blocked'[c][1].url # ""
            /\ \A d \in Conns \ {c} : blocked'[d] = blocked[d]]_vars

\* C7: while the session is down, a connection attempt is always ahead: the
\* first irc.Connect of main, or the retry of a sleeping "disconnected"
\* handler.
C7_RetryPending ==
  (Running /\ conn = "Disconnected") => (mainpc \in {"config", "connect"} \/ reconn = "sleeping")

\* C8: every entry into Connected writes exactly one JOIN of the
\* configured channel.
C8_JoinOnEveryEntry ==
  [][conn # "Connected" /\ conn' = "Connected" => out' = <<Join(conf.Channel)>>]_vars

\* C9: once main has registered its handlers, the dispatch of a KICK that
\* removed the bot writes exactly one JOIN, of the channel, and leaves the
\* connection as it is; the dispatch of any other KICK writes no JOIN.
C9_RejoinOnlyWhenKicked ==
  [][line # <<>> /\ line' = <<>> /\ conn' = conn /\ line[1].cmd = "KICK"
       /\ Registered("KICK")
       => IF line[1].arg = Nick
            THEN /\ Cardinality(Joins(out')) = 1
                 /\ out'[1] = Join(conf.Channel)
                 /\ reconn' = reconn
            ELSE Joins(out') = {}]_vars

\* C10: the delivery loop writes a notification to the connection only
\* while the session is Connected; otherwise it drops it.
C10_SendOnlyWhenConnected ==
  [][mainpc = "send" /\ mainpc' # "send"
       => out' = (IF conn = "Connected" THEN <<Privmsg(conf.Channel, cur[1])>> ELSE <<>>)]_vars

\* C11: a SIGINT delivered at any moment leads to the quit message and to
\* the termination of the process: no signal is ever lost.  A dropped signal
\* is kept nowhere (the channel has no buffer), so no later step can act on
\* it: the claim holds exactly when no delivery ends as "dropped".
C11_SignalNeverLost == sig # "dropped"

Pieces(str) == {str[i] : i \in 1..Len(str)}

\* C12: when the handler serves a well-formed pull-request event of an
\* accepted action whose merged flag is true, the action segment of the
\* notification it formats is the fixed label "Merged", whatever the raw
\* action is (and so not the raw action).
C12_MergedLabel ==
  [][served' # <<>> /\ served'[1].ev = "pull_request" /\ served'[1].body.json = "ok"
       /\ SpecAccepted(served'[1]) /\ served'[1].body.merged
     => \E c \in Conns :
          /\ blocked[c] = <<>>
          /\ Len(blocked'[c]) = 1
          /\ "Merged" \in Pieces(blocked'[c][1].action)
          /\ served'[1].body.action \notin Pieces(blocked'[c][1].action)]_vars

IsDigit(ch) == \E d \in 0..9 : Digit(d) = ch
DigitValue(ch) == CHOOSE d \in 0..9 : Digit(d) = ch
\* The number a sequence of one or two digits denotes.
Denotes(ds, n) ==
  /\ \A i \in 1..Len(ds) : IsDigit(ds[i])
  /\ n = IF Len(ds) = 1 THEN DigitValue(ds[1])
          ELSE 10 * DigitValue(ds[1]) + DigitValue(ds[2])

\* C13 as stated: for every text and every colour, the wrapped text is
\* exactly one leading control byte, the colour code as two zero-padded
\* decimal digits, the text unchanged, and one trailing control byte.
C13_PaddedWrapping ==
  wrap.res # <<>> =>
    /\ Len(wrap.res) = 5
    /\ wrap.res[1] = "^C"
    /\ Denotes(SubSeq(wrap.res, 2, 3), wrap.fg)
    /\ wrap.res[4] = wrap.in
    /\ wrap.res[5] = "^C"

\* C13 amended: for every text and every colour, the wrapped text is exactly
\* one leading control byte (0x03), the colour code in decimal with no
\* padding (one digit up to 9, two from 10), the background ",99", the text
\* unchanged, and one trailing control byte (0x03).
C13_Wrapping ==
  wrap.res # <<>> =>
    LET n == Len(wrap.res)
        code == SubSeq(wrap.res, 2, n - 5)
    IN /\ n \in {7, 8}
       /\ wrap.res[1] = "^C"
       /\ Denotes(code, wrap.fg)
       /\ Len(code) = 2 => code[1] # "0"
       /\ SubSeq(wrap.res, n - 4, n - 2) = <<",", "9", "9">>
       /\ wrap.res[n - 1] = wrap.in
       /\ wrap.res[n] = "^C"

\* A two-digit colour wrapped around a text that starts with a digit.
C13_Witness == wrap.res # <<>> /\ wrap.fg >= 10 /\ wrap.in = "7up"

\* A configuration that cannot be loaded, or that lacks a startup field.
Unusable(file) ==
  \/ file.state # "ok"
  \/ \E key \in DOMAIN file.toml : file.toml[key] = ""

\* C14: started on a configuration that cannot be loaded or that lacks a
\* required field, the process exits before it attempts a chat connection,
\* starts the HTTP listener or makes a notification: main never gets past
\* the loading of the configuration other than by exiting, the session is
\* never dialled and no request is served.
C14_ExitsOnBadConfig ==
  Unusable(conffile) =>
    /\ mainpc \in {"config", "exited"}
    /\ conn = "Disconnected"
    /\ served = <<>> /\ enqLog = <<>>

Count(log, m) == Cardinality({i \in 1..Len(log) : log[i] = m})
Logged == Pieces(enqLog) \cup Pieces(deqLog) \cup Pieces(sentLog)

\* C17: delivery is at most once: a message is received from the queue no
\* more often than it was sent on it, and passed to irc.Privmsg no more
\* often than it was received, whatever the session did in between; and a
\* message gets into the queue only from a request handler at its send,
\* which then lets go of it (nothing is put back or sent again).
C17_AtMostOnce ==
  /\ [](\A m \in Logged :
          /\ Count(deqLog, m) <= Count(enqLog, m)
          /\ Count(sentLog, m) <= Count(deqLog, m))
  /\ [][ircmsgs' # ircmsgs /\ Len(ircmsgs') >= Len(ircmsgs)
         => \E c \in Conns :
              /\ blocked[c] # <<>>
              /\ ircmsgs' = Append(ircmsgs, blocked[c][1])
              /\ blocked'[c] = <<>>
              /\ cur' = cur]_vars

\* Two messages were delivered, the session is down with its handler
\* asleep, and more are queued and in the loop's hand.
C17_Witness ==
  /\ Len(sentLog) >= 2
  /\ conn = "Disconnected" /\ reconn = "sleeping"
  /\ ircmsgs # <<>> /\ cur # <<>>

ReloadWords == {"reload", "restart", "reboot", "eat toml"}

\* The step in which the PRIVMSG handler answers a line addressed to the bot.
Answers(l) ==
  /\ line = <<l>> /\ line' = <<>>
  /\ l.cmd = "PRIVMSG" /\ l.arg.prefix = Nick \o ":"
  /\ Len(out') = 1 /\ out'[1].cmd = "PRIVMSG"

C19_OncePerRequest ==
  [][/\ served' # <<>> =>
          /\ Len(posts') <= 1
          /\ \E c \in Conns :
               /\ reqs[c] # <<>> /\ served'[1] = Head(reqs[c])
               /\ reqs'[c] = Tail(reqs[c])
               /\ blocked[c] = <<>> /\ Len(blocked'[c]) <= 1
               /\ \A d \in Conns \ {c} : reqs'[d] = reqs[d] /\ blocked'[d] = blocked[d]
     /\ served' = <<>> =>
          /\ posts' = <<>>
          /\ reqs' = reqs
          /\ \A c \in Conns : blocked'[c] # blocked[c] => blocked'[c] = <<>>]_vars

\* A request whose body fails to decode and whose URL git.io refuses was
\* served: one POST was made, and one message is with the handler.
C19_Witness ==
  /\ served # <<>>
  /\ served[1].body.json = "type" /\ served[1].gitio = "500"
  /\ Len(posts) = 1
  /\ \E c \in Conns : Len(blocked[c]) = 1 /\ blocked[c][1].url = ""

====
